---- MODULE Spec2Model ----
(***************************************************************************)
(* Model of src/main.py: the upload endpoint (upload_files) and the mock   *)
(* instant-edit endpoint (instant_edit) of the FastAPI backend.            *)
(*                                                                         *)
(* Python strings that the code inspects character by character (asset     *)
(* references, file names, stored names) are sequences of one-character    *)
(* strings, so that lower(), endswith() and os.path.splitext() are         *)
(* computed, not assumed.  Template ids are only compared for equality and *)
(* are TLA+ strings.  An Optional value is None or Some(v).                 *)
(***************************************************************************)
EXTENDS Integers, Sequences, FiniteSets, TLC

VARIABLES up, fs, used, editReq, editResp

vars == <<up, fs, used, editReq, editResp>>

None == <<>>
Some(v) == <<v>>
Get(o) == o[1]

(***************************************************************************)
(* Bounds of the model.                                                    *)
(***************************************************************************)
\* longest asset list of an instant-edit request
MaxAssets == 2
\* most files in one upload request
MaxFiles == 2
\* number of upload requests that may be in flight together
NumRequests == 2
\* size of the pool uuid4 draws from
NumTokens == 3
\* bytes returned by one f.read(1024 * 1024), scaled down
ChunkSize == 2

(***************************************************************************)
(* str.lower(), str.endswith()                                             *)
(***************************************************************************)
UpperChars == <<"A","B","C","D","E","F","G","H","I","J","K","L","M",
                "N","O","P","Q","R","S","T","U","V","W","X","Y","Z">>
LowerChars == <<"a","b","c","d","e","f","g","h","i","j","k","l","m",
                "n","o","p","q","r","s","t","u","v","w","x","y","z">>

LowerChar(c) ==
    IF \E i \in 1..Len(UpperChars) : UpperChars[i] = c
    THEN LowerChars[CHOOSE i \in 1..Len(UpperChars) : UpperChars[i] = c]
    ELSE c

Lower(s) == [i \in 1..Len(s) |-> LowerChar(s[i])]

\* a bug: the test is "contains", not "ends with"
Contains(s, e) ==
    \E k \in 1..(Len(s) - Len(e) + 1) : SubSeq(s, k, k + Len(e) - 1) = e

EndsWith(s, e) ==
    /\ Len(s) >= Len(e)
    /\ SubSeq(s, Len(s) - Len(e) + 1, Len(s)) = e

(***************************************************************************)
(* The template catalog.                                                   *)
(***************************************************************************)
TEMPLATES ==
    << [id |-> "reel-916-bold",       aspect_ratio |-> "9:16"],
       [id |-> "corporate-169-clean", aspect_ratio |-> "16:9"],
       [id |-> "event-11-pop",        aspect_ratio |-> "1:1"] >>

\* next((t for t in TEMPLATES if t.id == template_id), None)
FindTemplate(template_id) ==
    IF \E i \in 1..Len(TEMPLATES) : TEMPLATES[i].id = template_id
    THEN Some(TEMPLATES[CHOOSE i \in 1..Len(TEMPLATES) :
                           /\ TEMPLATES[i].id = template_id
                           /\ \A j \in 1..(i - 1) : TEMPLATES[j].id # template_id])
    ELSE None

(***************************************************************************)
(* instant_edit                                                            *)
(***************************************************************************)
video_exts == << <<".","m","p","4">>, <<".","m","o","v">>,
                 <<".","m","k","v">>, <<".","w","e","b","m">> >>
image_exts == << <<".","j","p","g">>, <<".","j","p","e","g">>,
                 <<".","p","n","g">>, <<".","g","i","f">> >>

PLACEHOLDER ==
    <<"h","t","t","p","s",":","/","/","p","l","a","c","e","h","o","l","d",".","c","o",
      "/","1","2","8","0","x","7","2","0","?","t","e","x","t","=",
      "I","n","s","t","a","n","t","+","P","r","e","v","i","e","w">>

\* a bug: the reference is not lower-cased before the test
HasExtCaseSensitive(url, exts) ==
    \E k \in 1..Len(exts) : EndsWith(url, exts[k])

\* any(l.endswith(e) for e in exts), l = url.lower()
HasExt(url, exts) ==
    \E k \in 1..Len(exts) : EndsWith(Lower(url), exts[k])

\* a bug: the scan keeps the last match instead of breaking at the first
LastMatch(assets, exts) ==
    IF \E i \in 1..Len(assets) : HasExt(assets[i], exts)
    THEN assets[CHOOSE i \in 1..Len(assets) :
                   /\ HasExt(assets[i], exts)
                   /\ \A j \in (i + 1)..Len(assets) : ~HasExt(assets[j], exts)]
    ELSE <<>>

\* for url in req.assets: if any(...): preview_url = url; break
\* (the value preview_url has after the loop, starting from "")
FirstMatch(assets, exts) ==
    IF \E i \in 1..Len(assets) : HasExt(assets[i], exts)
    THEN assets[CHOOSE i \in 1..Len(assets) :
                   /\ HasExt(assets[i], exts)
                   /\ \A j \in 1..(i - 1) : ~HasExt(assets[j], exts)]
    ELSE <<>>

\* lines 184-203: the two passes and the placeholder
SelectPreview(assets) ==
    LET v == FirstMatch(assets, video_exts)
        g == IF v = <<>> THEN FirstMatch(assets, image_exts) ELSE v
        t == IF v # <<>> THEN "video"
             ELSE IF g # <<>> THEN "image" ELSE "unknown"
    IN  IF g = <<>>
        THEN [preview_type |-> "placeholder", preview_url |-> PLACEHOLDER]
        ELSE [preview_type |-> t, preview_url |-> g]

\* a bug: the asset list is validated before the template
instant_edit_assets_first(req) ==
    IF req.assets = <<>> THEN [status |-> 400]
    ELSE IF FindTemplate(req.template_id) = None THEN [status |-> 404]
    ELSE [status |-> 200,
          template |-> Get(FindTemplate(req.template_id)),
          preview_type |-> SelectPreview(req.assets).preview_type,
          preview_url |-> SelectPreview(req.assets).preview_url,
          used_assets |-> req.assets]

\* a bug: the empty asset list is not rejected
instant_edit_no_empty_check(req) ==
    IF FindTemplate(req.template_id) = None THEN [status |-> 404]
    ELSE [status |-> 200,
          template |-> Get(FindTemplate(req.template_id)),
          preview_type |-> SelectPreview(req.assets).preview_type,
          preview_url |-> SelectPreview(req.assets).preview_url,
          used_assets |-> req.assets]

\* the response of POST /api/instant-edit
instant_edit(req) ==
    LET tpl == FindTemplate(req.template_id)
    IN  IF tpl = None THEN [status |-> 404]
        ELSE IF req.assets = <<>> THEN [status |-> 400]
        ELSE [status |-> 200,
              template |-> Get(tpl),
              preview_type |-> SelectPreview(req.assets).preview_type,
              preview_url |-> SelectPreview(req.assets).preview_url,
              used_assets |-> req.assets]

(***************************************************************************)
(* Inputs of the instant-edit requests.                                    *)
(***************************************************************************)
TemplateIds ==
    {"reel-916-bold", "corporate-169-clean", "event-11-pop",
     "REEL-916-BOLD", "nope", ""}

AssetPool ==
    { <<"a",".","p","n","g">>,
      <<"b",".","m","p","4">>,
      <<"b",".","j","p","g">>,
      <<"C",".","M","p","4">>,
      <<"d",".","W","E","B","M">>,
      <<"E",".","G","i","F">>,
      <<"a",".","p","d","f">>,
      <<"v",".","m","p","4","?","x","=","1">>,
      <<"g",".","p","n","g","#","t">>,
      <<"n","o","e","x","t">>,
      <<>> }

RECURSIVE ListsUpTo(_, _)
ListsUpTo(S, n) ==
    IF n = 0 THEN {<<>>}
    ELSE LET shorter == ListsUpTo(S, n - 1)
         IN  shorter \cup {Append(l, x) : l \in shorter, x \in S}

NoRequest == [template_id |-> "", assets |-> <<>>]
NoResponse == [status |-> 0]

\* POST /api/instant-edit with the given body
InstantEdit(tid, assets) ==
    /\ editReq' = [template_id |-> tid, assets |-> assets]
    /\ editResp' = instant_edit([template_id |-> tid, assets |-> assets])
    /\ UNCHANGED <<up, fs, used>>

(***************************************************************************)
(* upload_files: the helpers of the loop body, lines 126-147.              *)
(***************************************************************************)
\* str.rfind(c), 1-based; 0 when c does not occur
RECURSIVE RFindFrom(_, _, _)
RFindFrom(p, c, k) ==
    IF k = 0 THEN 0
    ELSE IF p[k] = c THEN k ELSE RFindFrom(p, c, k - 1)

RFind(p, c) == RFindFrom(p, c, Len(p))

\* the "skip all leading dots" loop of os.path.splitext: TRUE when a
\* character other than "." stands in filenameIndex..dotIndex-1
RECURSIVE SkipLeadingDots(_, _, _)
SkipLeadingDots(p, filenameIndex, dotIndex) ==
    IF filenameIndex >= dotIndex THEN FALSE
    ELSE IF p[filenameIndex] # "." THEN TRUE
    ELSE SkipLeadingDots(p, filenameIndex + 1, dotIndex)

\* a bug: the extension is cut at the last "." wherever it stands
SplitExtNaive(p) ==
    IF RFind(p, ".") > 0
    THEN <<SubSeq(p, 1, RFind(p, ".") - 1), SubSeq(p, RFind(p, "."), Len(p))>>
    ELSE <<p, <<>>>>

\* os.path.splitext(p) on a POSIX host (sep "/", no altsep, extsep ".")
SplitExt(p) ==
    LET sepIndex == RFind(p, "/")
        dotIndex == RFind(p, ".")
    IN  IF dotIndex > sepIndex /\ SkipLeadingDots(p, sepIndex + 1, dotIndex)
        THEN <<SubSeq(p, 1, dotIndex - 1), SubSeq(p, dotIndex, Len(p))>>
        ELSE <<p, <<>>>>

\* f.filename or ""
FilenameOrEmpty(filename) == IF filename = None THEN <<>> ELSE Get(filename)

ALLOWED_EXTS ==
    { <<".","m","p","4">>, <<".","m","o","v">>, <<".","m","k","v">>,
      <<".","w","e","b","m">>, <<".","j","p","g">>, <<".","j","p","e","g">>,
      <<".","p","n","g">>, <<".","g","i","f">>, <<".","p","d","f">>,
      <<".","z","i","p">>, <<".","w","a","v">>, <<".","m","p","3">>,
      <<".","a","a","c">>, <<".","m","4","a">> }

\* lines 126-132: ext = splitext(...)[1]; ext.lower() if ext else "";
\* safe_ext = ext if ext in [...] else ext
SafeExt(filename) ==
    LET ext0 == SplitExt(FilenameOrEmpty(filename))[2]
        ext == IF ext0 # <<>> THEN Lower(ext0) ELSE <<>>
    IN  IF ext \in ALLOWED_EXTS THEN ext ELSE ext

\* a bug: the stored name leaves the token out
StoredNameNoToken(token, safe_ext) == safe_ext

\* line 133: f"{uuid.uuid4().hex}{safe_ext}"
StoredName(token, safe_ext) == token \o safe_ext

\* str.rstrip("/")
RECURSIVE RStripSlash(_)
RStripSlash(s) ==
    IF s # <<>> /\ s[Len(s)] = "/" THEN RStripSlash(SubSeq(s, 1, Len(s) - 1))
    ELSE s

UPLOADS == <<"/","u","p","l","o","a","d","s","/">>

\* lines 141-147: the entry appended to saved
SavedEntry(f, fname, base) ==
    [original |-> f.filename,
     stored_as |-> fname,
     url |-> base \o UPLOADS \o fname,
     mime |-> f.content_type]

\* a bug: the entry is put at the front of saved
PrependSaved(saved, entry) == <<entry>> \o saved

\* saved.append(entry)
AppendSaved(saved, entry) == Append(saved, entry)

\* a bug: the error is swallowed and the files stored so far are reported
OnIOErrorSwallow(rq) ==
    [rq EXCEPT !.pc = "done",
               !.resp = [status |-> 200, count |-> Len(rq.saved), files |-> rq.saved]]

\* an exception leaving upload_files: the request ends in a 500 without a body
OnIOError(rq) == [rq EXCEPT !.pc = "failed", !.resp = [status |-> 500]]

(***************************************************************************)
(* The file system under UPLOAD_DIR: a function from stored names to the   *)
(* bytes of the file.                                                      *)
(***************************************************************************)
\* open(path, "wb"): the file is created, or truncated when it exists
OpenWb(files, fname) ==
    [n \in (DOMAIN files) \cup {fname} |-> IF n = fname THEN <<>> ELSE files[n]]

\* out.write(chunk).  Under a name no other handle has open the handle's
\* offset is the length of the file, so the write appends.
WriteChunk(files, fname, chunk) ==
    [n \in DOMAIN files |-> IF n = fname THEN files[n] \o chunk ELSE files[n]]

(***************************************************************************)
(* uuid.uuid4().hex: a token of hexadecimal digits of fixed length.        *)
(***************************************************************************)
HexDigits == <<"0","1","2","3","4","5","6","7","8","9","a","b","c","d","e","f">>

Token(i) == <<HexDigits[(i \div 16) + 1], HexDigits[(i % 16) + 1]>>

Tokens == {Token(i) : i \in 1..NumTokens}

\* the tokens uuid4 may return, none of them returned before
FreshTokens(usedTokens) == Tokens \ usedTokens

(***************************************************************************)
(* Inputs of the upload requests: UploadFile values (filename,             *)
(* content_type, the bytes of the stream).                                 *)
(***************************************************************************)
UploadFile(filename, content_type, content) ==
    [filename |-> filename, content_type |-> content_type, content |-> content]

FilePool ==
    { UploadFile(None, "application/octet-stream", <<1>>),
      UploadFile(Some(<<>>), "text/plain", <<>>),
      UploadFile(Some(<<"a",".","P","N","G">>), "image/png", <<1, 2, 3>>),
      UploadFile(Some(<<"b",".","p","n","g">>), "image/png", <<4, 5>>),
      UploadFile(Some(<<"n","o","e","x","t">>), "text/plain", <<6>>),
      UploadFile(Some(<<".","b","a","s","h","r","c">>), "text/plain", <<7, 8>>),
      UploadFile(Some(<<"a",".">>), "text/plain", <<1>>),
      UploadFile(Some(<<"a",".","b","/","c">>), "text/plain", <<2>>),
      UploadFile(Some(<<"x",".","t","a","r",".","G","z">>), "application/gzip", <<3, 4, 5>>),
      UploadFile(Some(<<".",".","p","n","g">>), "image/png", <<5>>),
      UploadFile(Some(<<"d","/",".","x">>), "text/plain", <<>>),
      UploadFile(Some(<<".",".","/","p">>), "text/plain", <<6, 7>>),
      UploadFile(Some(<<"e",".","s",";","H">>), "text/x-sh", <<8>>) }

\* the file lists of the requests that run concurrently
ConcLists ==
    { << UploadFile(Some(<<"a",".","P","N","G">>), "image/png", <<1, 2, 3>>) >>,
      << UploadFile(Some(<<"b",".","p","n","g">>), "image/png", <<4>>) >> }

\* str(request.base_url)
BaseUrl == <<"h",":","/","/","s","/">>

Requests == 1..NumRequests

(***************************************************************************)
(* State.  up[r] is upload request r: its position (pc), its inputs, the   *)
(* loop's locals (i: index of the current file, fname, saved), rd[j]: how  *)
(* many bytes of file j's stream were read, err: the index of the file at  *)
(* which an I/O error was raised (0: none), before: the names in the       *)
(* upload directory when the request arrived, resp: the HTTP response.     *)
(* fs is the upload directory, used the tokens uuid4 has returned.         *)
(***************************************************************************)
IdleRequest ==
    [pc |-> "idle", files |-> <<>>, base |-> <<>>, i |-> 0, rd |-> <<>>,
     fname |-> <<>>, saved |-> <<>>, err |-> 0, before |-> {},
     resp |-> NoResponse]

\* a file an earlier run of the service stored
OldName == Token(1) \o <<".","p","n","g">>
OldFs == [n \in {OldName} |-> <<9, 9>>]

Init ==
    /\ up = [r \in Requests |-> IdleRequest]
    /\ fs = OldFs
    /\ used = {Token(1)}
    /\ editReq = NoRequest
    /\ editResp = NoResponse

(***************************************************************************)
(* upload_files.  The coroutine gives up control only at                   *)
(* `await f.read(...)`, so each action runs from one await to the next.    *)
(***************************************************************************)
\* lines 126-137 for file rq.i: name the file, open it, suspend in f.read.
\* open() succeeds or raises.
BeginFile(r, rq) ==
    \E token \in FreshTokens(used) : \E ok \in BOOLEAN :
        LET fname == StoredName(token, SafeExt(rq.files[rq.i].filename))
        IN  /\ used' = used \cup {token}
            /\ IF ok
               THEN /\ fs' = OpenWb(fs, fname)
                    /\ up' = [up EXCEPT ![r] =
                                 [rq EXCEPT !.pc = "reading", !.fname = fname]]
               ELSE /\ fs' = fs
                    /\ up' = [up EXCEPT ![r] = OnIOError([rq EXCEPT !.err = rq.i])]

\* POST /api/upload arrives: lines 119-123, then the first file is begun
UploadStart(r, files) ==
    /\ up[r].pc = "idle"
    /\ IF files = <<>>
       THEN /\ up' = [up EXCEPT ![r] =
                         [IdleRequest EXCEPT !.pc = "rejected",
                                             !.resp = [status |-> 400]]]
            /\ UNCHANGED <<fs, used>>
       ELSE BeginFile(r, [IdleRequest EXCEPT
                             !.files = files,
                             !.base = RStripSlash(BaseUrl),
                             !.i = 1,
                             !.before = DOMAIN fs,
                             !.rd = [j \in 1..Len(files) |-> 0]])
    /\ UNCHANGED <<editReq, editResp>>

\* f.read returns a chunk: lines 137-140 write it and read again; an empty
\* chunk ends the file (lines 138-147) and begins the next one or returns
\* (line 149).  out.write succeeds or raises.
UploadRead(r) ==
    LET rq == up[r]
        f == rq.files[rq.i]
        n == rq.rd[rq.i]
        m == IF n + ChunkSize < Len(f.content) THEN n + ChunkSize ELSE Len(f.content)
        chunk == SubSeq(f.content, n + 1, m)
        rq1 == [rq EXCEPT !.rd[rq.i] = m]
        rq2 == [rq1 EXCEPT !.saved = AppendSaved(rq.saved,
                                                 SavedEntry(f, rq.fname, rq.base))]
    IN  /\ rq.pc = "reading"
        /\ IF chunk # <<>>
           THEN /\ \E ok \in BOOLEAN :
                      IF ok
                      THEN /\ fs' = WriteChunk(fs, rq.fname, chunk)
                           /\ up' = [up EXCEPT ![r] = rq1]
                      ELSE /\ fs' = fs
                           /\ up' = [up EXCEPT ![r] =
                                        OnIOError([rq1 EXCEPT !.err = rq.i])]
                /\ used' = used
           ELSE IF rq.i < Len(rq.files)
           THEN BeginFile(r, [rq2 EXCEPT !.i = rq.i + 1])
           ELSE /\ up' = [up EXCEPT ![r] =
                             [rq2 EXCEPT !.pc = "done",
                                         !.resp = [status |-> 200,
                                                   count |-> Len(rq2.saved),
                                                   files |-> rq2.saved]]]
                /\ UNCHANGED <<fs, used>>
        /\ UNCHANGED <<editReq, editResp>>

(***************************************************************************)
(* Specifications.                                                         *)
(***************************************************************************)
\* the instant-edit endpoint alone: one request, its body drawn from the
\* pools, and the handler applied to it
InitEdit ==
    /\ up = [r \in Requests |-> IdleRequest]
    /\ fs = OldFs
    /\ used = {Token(1)}
    /\ editReq \in [template_id : TemplateIds,
                    assets : ListsUpTo(AssetPool, MaxAssets)]
    /\ editResp = NoResponse

NextEdit ==
    /\ editResp = NoResponse
    /\ InstantEdit(editReq.template_id, editReq.assets)

SpecEdit == InitEdit /\ [][NextEdit]_vars

\* one upload request, over every file list of the pool
NextUpload ==
    \/ \E files \in ListsUpTo(FilePool, MaxFiles) : UploadStart(1, files)
    \/ UploadRead(1)

SpecUpload == Init /\ [][NextUpload]_vars

\* the urls the upload responses have returned so far
ReturnedUrls ==
    UNION { {up[r].resp.files[k].url : k \in 1..Len(up[r].resp.files)} :
            r \in {q \in Requests : up[q].pc = "done"} }

\* upload requests and instant-edit requests in any interleaving
Next ==
    \/ \E r \in Requests : \E files \in ConcLists : UploadStart(r, files)
    \/ \E r \in Requests : UploadRead(r)
    \/ \E url \in ReturnedUrls : InstantEdit("event-11-pop", <<url>>)

Spec == Init /\ [][Next]_vars

(***************************************************************************)
(* Properties of instant_edit (checked under SpecEdit).                    *)
(***************************************************************************)
KnownIds == {TEMPLATES[i].id : i \in 1..Len(TEMPLATES)}

\* ref ends, case-insensitively, with ext
EndsCI(ref, ext) ==
    /\ Len(ref) >= Len(ext)
    /\ \A k \in 1..Len(ext) : LowerChar(ref[Len(ref) - Len(ext) + k]) = ext[k]

IsVideoRef(ref) ==
    \E e \in { <<".","m","p","4">>, <<".","m","o","v">>,
               <<".","m","k","v">>, <<".","w","e","b","m">> } : EndsCI(ref, e)

IsImageRef(ref) ==
    \E e \in { <<".","j","p","g">>, <<".","j","p","e","g">>,
               <<".","p","n","g">>, <<".","g","i","f">> } : EndsCI(ref, e)

Answered == editResp # NoResponse

\* C1: for a known template id and a non-empty asset list holding at least one
\* video reference, the response is 200 with preview_type "video" and
\* preview_url the first video reference of the list, exactly as supplied.
C1_FirstVideoWins ==
    (/\ Answered
     /\ editReq.template_id \in KnownIds
     /\ \E i \in 1..Len(editReq.assets) : IsVideoRef(editReq.assets[i]))
    => /\ editResp.status = 200
       /\ editResp.preview_type = "video"
       /\ \E i \in 1..Len(editReq.assets) :
             /\ IsVideoRef(editReq.assets[i])
             /\ \A j \in 1..(i - 1) : ~IsVideoRef(editReq.assets[j])
             /\ editResp.preview_url = editReq.assets[i]

\* a video in upper case is chosen although an image stands before it
C1_Witness ==
    /\ Answered
    /\ editReq.template_id \in KnownIds
    /\ Len(editReq.assets) = 2
    /\ IsImageRef(editReq.assets[1])
    /\ editReq.assets[2] = <<"d",".","W","E","B","M">>
    /\ editResp.status = 200
    /\ editResp.preview_type = "video"
    /\ editResp.preview_url = editReq.assets[2]

\* C2: for a known template id and a non-empty asset list without a video
\* reference but with an image reference, the response is 200 with
\* preview_type "image" and preview_url the first image reference of the list.
C2_FirstImageWhenNoVideo ==
    (/\ Answered
     /\ editReq.template_id \in KnownIds
     /\ \A i \in 1..Len(editReq.assets) : ~IsVideoRef(editReq.assets[i])
     /\ \E i \in 1..Len(editReq.assets) : IsImageRef(editReq.assets[i]))
    => /\ editResp.status = 200
       /\ editResp.preview_type = "image"
       /\ \E i \in 1..Len(editReq.assets) :
             /\ IsImageRef(editReq.assets[i])
             /\ \A j \in 1..(i - 1) : ~IsImageRef(editReq.assets[j])
             /\ editResp.preview_url = editReq.assets[i]

\* two different images: the first one is the preview
C2_Witness ==
    /\ Answered
    /\ editReq.template_id \in KnownIds
    /\ editReq.assets = << <<"a",".","p","n","g">>, <<"b",".","j","p","g">> >>
    /\ editResp.status = 200
    /\ editResp.preview_type = "image"
    /\ editResp.preview_url = <<"a",".","p","n","g">>

\* C3: for a known template id and a non-empty asset list without a video or
\* image reference, the response is 200 with preview_type "placeholder" and
\* preview_url the fixed placeholder (a constant, not an entry of the list).
C3_PlaceholderWhenNoMatch ==
    (/\ Answered
     /\ editReq.template_id \in KnownIds
     /\ editReq.assets # <<>>
     /\ \A i \in 1..Len(editReq.assets) :
           ~IsVideoRef(editReq.assets[i]) /\ ~IsImageRef(editReq.assets[i]))
    => /\ editResp.status = 200
       /\ editResp.preview_type = "placeholder"
       /\ editResp.preview_url = PLACEHOLDER

\* a reference with a query string after ".mp4" and one without an extension
C3_Witness ==
    /\ Answered
    /\ editReq.template_id \in KnownIds
    /\ editReq.assets = << <<"v",".","m","p","4","?","x","=","1">>,
                           <<"n","o","e","x","t">> >>
    /\ editResp.status = 200
    /\ editResp.preview_type = "placeholder"

\* C4: a template id that is not exactly a catalog id is answered 404 and
\* nothing else, whatever the asset list, the empty list included.
C4_UnknownTemplate404 ==
    (Answered /\ editReq.template_id \notin KnownIds)
    => editResp = [status |-> 404]

\* a catalog id in upper case with an empty asset list
C4_Witness ==
    /\ editReq.template_id = "REEL-916-BOLD"
    /\ editReq.assets = <<>>
    /\ editResp = [status |-> 404]

\* C5: a catalog id with an empty asset list is answered 400 and nothing else.
C5_EmptyAssets400 ==
    (Answered /\ editReq.template_id \in KnownIds /\ editReq.assets = <<>>)
    => editResp = [status |-> 400]

C5_Witness ==
    /\ editReq.template_id = "corporate-169-clean"
    /\ editReq.assets = <<>>
    /\ editResp = [status |-> 400]

(***************************************************************************)
(* Properties of upload_files.                                             *)
(***************************************************************************)
\* C6: a successful upload of N >= 1 files answers count = N and N entries in
\* input order, entry i with file i's original name and mime type, the stored
\* names pairwise distinct, and the files the request created in the upload
\* directory are exactly the N stored names.
C6_BatchMetadata ==
    \A r \in Requests :
        up[r].pc = "done" =>
            LET rq == up[r]
                out == rq.resp
                N == Len(rq.files)
            IN  /\ N >= 1
                /\ out.status = 200
                /\ out.count = N
                /\ Len(out.files) = N
                /\ \A k \in 1..N :
                      /\ out.files[k].original = rq.files[k].filename
                      /\ out.files[k].mime = rq.files[k].content_type
                /\ \A k, l \in 1..N :
                      k # l => out.files[k].stored_as # out.files[l].stored_as
                /\ (DOMAIN fs) \ rq.before = {out.files[k].stored_as : k \in 1..N}
                /\ Cardinality((DOMAIN fs) \ rq.before) = N

\* two files with the same extension and different mime types, stored beside
\* an older file
C6_Witness ==
    /\ up[1].pc = "done"
    /\ Len(up[1].files) = 2
    /\ up[1].files[1].filename = Some(<<"a",".","P","N","G">>)
    /\ up[1].files[2].filename = Some(<<"b",".","p","n","g">>)
    /\ up[1].resp.count = 2
    /\ Cardinality(DOMAIN fs) = 3

TokenLen == Len(Token(1))

TokenOf(stored) == SubSeq(stored, 1, TokenLen)

\* the claim's extension: the text from the last "." on, case-folded; empty
\* when the name is absent or holds no "."
ExtAfterLastDot(filename) ==
    LET p == IF filename = None THEN <<>> ELSE filename[1]
        dots == {d \in 1..Len(p) : p[d] = "."}
    IN  IF dots = {} THEN <<>>
        ELSE LET d == CHOOSE x \in dots : \A y \in dots : y <= x
             IN  [k \in 1..(Len(p) - d + 1) |-> LowerChar(p[d + k - 1])]

\* C7 as stated: every stored name is a token followed by the case-folded text
\* from the last "." of the original filename on (nothing when there is no
\* "."), for every filename.
C7_Original ==
    \A r \in Requests : \A k \in 1..Len(up[r].saved) :
        LET e == up[r].saved[k]
        IN  /\ TokenOf(e.stored_as) \in Tokens
            /\ e.stored_as = TokenOf(e.stored_as) \o ExtAfterLastDot(e.original)

\* the extension of os.path.splitext: the text from the last "." on, when no
\* "/" follows that "." and, before it and after the last "/", stands a
\* character other than "."
ExtOfLastComponent(filename) ==
    LET p == IF filename = None THEN <<>> ELSE filename[1]
        ok(d) == /\ p[d] = "."
                 /\ \A y \in (d + 1)..Len(p) : p[y] \notin {".", "/"}
                 /\ \E j \in 1..(d - 1) :
                       /\ p[j] # "."
                       /\ \A m \in j..d : p[m] # "/"
    IN  IF \E d \in 1..Len(p) : ok(d)
        THEN LET d == CHOOSE x \in 1..Len(p) : ok(x)
             IN  [k \in 1..(Len(p) - d + 1) |-> LowerChar(p[d + k - 1])]
        ELSE <<>>

\* C7 amended: every stored name is a token followed by the case-folded
\* extension of the last path component of the original filename, where a
\* component made of leading dots and a name (".bashrc", "..png") has no
\* extension and a "/" after the last "." means no extension.
C7_StoredNameIsTokenPlusSplitext ==
    \A r \in Requests : \A k \in 1..Len(up[r].saved) :
        LET e == up[r].saved[k]
        IN  /\ TokenOf(e.stored_as) \in Tokens
            /\ e.stored_as = TokenOf(e.stored_as) \o ExtOfLastComponent(e.original)

\* ".bashrc" is stored under the token alone, "x.tar.Gz" under token + ".gz"
C7_Witness ==
    /\ up[1].pc = "done"
    /\ Len(up[1].saved) = 2
    /\ up[1].saved[1].original = Some(<<".","b","a","s","h","r","c">>)
    /\ Len(up[1].saved[1].stored_as) = TokenLen
    /\ up[1].saved[2].original = Some(<<"x",".","t","a","r",".","G","z">>)
    /\ up[1].saved[2].stored_as = TokenOf(up[1].saved[2].stored_as) \o <<".","g","z">>

\* C8: when an I/O error is raised at file k the request ends failed, with a
\* 500 that carries no count and no files; no byte of a file after k was read
\* and the request created at most k files.
C8_AbortOnFirstIOError ==
    \A r \in Requests :
        up[r].err # 0 =>
            /\ up[r].pc = "failed"
            /\ up[r].resp = [status |-> 500]
            /\ \A j \in (up[r].err + 1)..Len(up[r].files) : up[r].rd[j] = 0
            /\ Cardinality((DOMAIN fs) \ up[r].before) <= up[r].err

\* the write of the second file fails after the first file was stored
C8_Witness ==
    /\ up[1].err = 2
    /\ Len(up[1].saved) = 1
    /\ up[1].rd[2] > 0
    /\ up[1].saved[1].stored_as \in DOMAIN fs
    /\ up[1].resp = [status |-> 500]

\* C9: once an upload response has returned a url, the file under that url's
\* stored name exists and holds exactly the bytes of the uploaded file, in
\* every later state, whatever other requests do.
C9_ReturnedFilesStayIntact ==
    \A r \in Requests :
        up[r].pc = "done" =>
            \A k \in 1..Len(up[r].resp.files) :
                LET e == up[r].resp.files[k]
                IN  /\ e.url = RStripSlash(BaseUrl) \o UPLOADS \o e.stored_as
                    /\ e.stored_as \in DOMAIN fs
                    /\ fs[e.stored_as] = up[r].files[k].content

\* a returned file stays intact while another upload is writing and after an
\* instant-edit request has used the returned url
C9_Witness ==
    /\ up[1].pc = "done"
    /\ up[2].pc = "reading"
    /\ up[2].rd[1] > 0
    /\ editResp.status = 200
    /\ editResp.preview_url = up[1].resp.files[1].url
    /\ fs[up[1].resp.files[1].stored_as] = <<1, 2, 3>>

SafeChars ==
    {HexDigits[k] : k \in 1..Len(HexDigits)}
        \cup {LowerChars[k] : k \in 1..Len(LowerChars)} \cup {"."}

\* C10: every name written under the upload directory consists of characters
\* of the safe set only (hexadecimal digits, ".", lower-case letters).
C10_StoredNameSafe ==
    \A n \in DOMAIN fs : \A k \in 1..Len(n) : n[k] \in SafeChars

====
